---- MODULE Spec2Model ----
(***************************************************************************)
(* Model of scripts/download_video.py: the command line entry point main,  *)
(* download_video (URL validation, output directory, cookie source,        *)
(* metadata probe, download, file lookup, error handler) and the progress  *)
(* callback _progress_hook.  The retrieval library (yt_dlp) and the file   *)
(* system are the environment: their outcomes are drawn from small sets.   *)
(***************************************************************************)
EXTENDS Integers, Sequences, FiniteSets, TLC

\* ------------------------------------------------------------------------
\* Bounds of the model
\* ------------------------------------------------------------------------
\* number of progress events the library emits during one download
MaxProgress == 1

\* ------------------------------------------------------------------------
\* Python values
\* ------------------------------------------------------------------------
\* Python's None, an int and a str as tagged values
PyNone == [type |-> "NoneType"]
PyInt(n) == [type |-> "int", val |-> n]
PyStr(s) == [type |-> "str", val |-> s]

\* dict.get(key, default): a dict is a function from its keys; a key that
\* is present with the value None yields None, not the default
DictGet(d, key, default) == IF key \in DOMAIN d THEN d[key] ELSE default

\* truth value of an optional int (None and 0 are false)
Truthy(v) == v # PyNone /\ v.val # 0

\* ------------------------------------------------------------------------
\* Paths: a file path is a directory and a file name; a file name is the
\* sequence of its dot-separated components ("abc.en.vtt" is
\* <<"abc","en","vtt">>)
\* ------------------------------------------------------------------------
CwdDir == "cwd"
OtherDir == "out"
Dirs == {CwdDir, OtherDir}

\* Path.__truediv__: directory / file name
PathJoin(dir, name) == [parent |-> dir, name |-> name]

\* Path.stem: the file name without its last suffix
PathStem(p) ==
  IF Len(p.name) > 1 THEN SubSeq(p.name, 1, Len(p.name) - 1) ELSE p.name

\* Path.with_suffix(ext): the last suffix replaced by ext (appended when the
\* name has no suffix); ext is itself a sequence of components
WithSuffix(p, ext) ==
  [parent |-> p.parent,
   name |-> (IF Len(p.name) > 1 THEN SubSeq(p.name, 1, Len(p.name) - 1)
                                ELSE p.name) \o ext]

CookiesName == <<"cookies", "txt">>

\* ------------------------------------------------------------------------
\* Inputs
\* ------------------------------------------------------------------------
GoodUrl == "https://youtube.com/watch?v=Ckt1cj0xjRM"
BadUrl == "ftp://example.org/file"
EmptyUrl == ""
Urls == {GoodUrl, BadUrl, EmptyUrl}

\* utils.validate_url: the URL-shape check
validate_url(u) == u = GoodUrl

ProgName == "download_video.py"

\* sys.argv of the invocations considered
Argvs ==
  {<<ProgName>>}
    \cup {<<ProgName, u>> : u \in Urls}
    \cup {<<ProgName, u, OtherDir>> : u \in Urls}

\* messages of the errors the retrieval library raises, as word sequences
Messages ==
  { <<"ERROR:", "Sign", "in", "to", "confirm", "you", "are", "not", "a", "bot">>,
    <<"Requested", "format", "is", "not", "available">>,
    <<"ERROR:", "Only", "images", "are", "available", "for", "download">>,
    <<"Sign", "in", "to", "continue">>,
    <<"HTTP", "Error", "403">> }

\* needle in haystack (Python's substring test on str), on word sequences
Contains(hay, needle) ==
  \E i \in 0..(Len(hay) - Len(needle)) :
    \A j \in 1..Len(needle) : hay[i + j] = needle[j]

SignInMsg == <<"Sign", "in", "to", "confirm">>
FormatMsg == <<"Requested", "format", "is", "not", "available">>
ImagesMsg == <<"Only", "images", "are", "available">>

\* NeedsGuidance without the third message
NeedsGuidance_two(msg) ==
  \/ Contains(msg, SignInMsg)
  \/ Contains(msg, FormatMsg)

\* the condition of the remediation branch of the error handler
NeedsGuidance(msg) ==
  \/ Contains(msg, SignInMsg)
  \/ Contains(msg, FormatMsg)
  \/ Contains(msg, ImagesMsg)

\* metadata returned by the probe (extract_info(url, download=False))
ProbeInfos ==
  { [title |-> "Talk", duration |-> PyInt(213), id |-> "vid"],
    [title |-> "Talk", duration |-> PyInt(0), id |-> "vid"],
    [title |-> "Talk", duration |-> PyNone, id |-> "vid"],
    [id |-> "vid"] }

\* file names the library resolves for the downloaded video
VideoNames == { <<"vid", "mp4">>, <<"vid", "f137", "webm">> }
\* sizes of a video file on disk
FileSizes == {0, 7}

\* ------------------------------------------------------------------------
\* State
\* ------------------------------------------------------------------------
VARIABLES
  argv,           \* sys.argv
  pc,             \* position of the process within main / download_video
  url,            \* the url argument of download_video
  output_dir_arg, \* the output_dir argument of download_video (None or str)
  output_dir,     \* the resolved output directory
  dirs,           \* file system: the directories that exist
  fs,             \* file system: existing file path -> size in bytes
  ydl_opts,       \* the configuration dict handed to yt_dlp.YoutubeDL
  trace,          \* calls made to utils.ensure_directory, to the file
                  \* system lookups of cookies.txt and to the library (ret:
                  \* what the probe returned, None when it raised)
  title,          \* local of download_video
  duration,       \* local of download_video
  video_id,       \* local of download_video
  video_path,     \* local of download_video
  result,         \* the dict download_video returned (None before)
  exc,            \* the exception being handled / propagated (None if none)
  stdout,         \* what has been printed, one record per message
  exit_code,      \* process exit status (None while running)
  nprogress,      \* progress events delivered so far
  progress_line   \* the line the progress hook last wrote in place

vars == <<argv, pc, url, output_dir_arg, output_dir, dirs, fs, ydl_opts,
          trace, title, duration, video_id, video_path, result, exc, stdout,
          exit_code, nprogress, progress_line>>

exists(p) == p \in DOMAIN fs

\* file systems the program can start in: the current directory exists, the
\* other directory may, and each existing directory may hold a cookies.txt
InitDirs == { {CwdDir}, Dirs }
InitFiles(ds) ==
  { [p \in {PathJoin(d, CookiesName) : d \in cs} |-> 1] : cs \in SUBSET ds }

Init ==
  /\ argv \in Argvs
  /\ pc = "main"
  /\ url = ""
  /\ output_dir_arg = PyNone
  /\ output_dir = ""
  /\ dirs \in InitDirs
  /\ fs \in InitFiles(dirs)
  /\ ydl_opts = [k \in {} |-> 0]
  /\ trace = <<>>
  /\ title = ""
  /\ duration = PyNone
  /\ video_id = ""
  /\ video_path = PyNone
  /\ result = PyNone
  /\ exc = PyNone
  /\ stdout = <<>>
  /\ exit_code = PyNone
  /\ nprogress = 0
  /\ progress_line = PyNone

Say(tag) == [tag |-> tag]

\* ------------------------------------------------------------------------
\* main, up to the call of download_video
\* ------------------------------------------------------------------------
MainStart ==
  /\ pc = "main"
  /\ IF Len(argv) < 2
       THEN /\ stdout' = Append(stdout, Say("usage"))
            /\ exit_code' = PyInt(1)
            /\ pc' = "exit"
            /\ UNCHANGED <<url, output_dir_arg>>
       ELSE /\ url' = argv[2]
            /\ output_dir_arg' = IF Len(argv) > 2 THEN PyStr(argv[3]) ELSE PyNone
            /\ pc' = "validate"
            /\ UNCHANGED <<stdout, exit_code>>
  /\ UNCHANGED <<argv, output_dir, dirs, fs, ydl_opts, trace, title, duration,
                 video_id, video_path, result, exc, nprogress, progress_line>>

\* ------------------------------------------------------------------------
\* download_video
\* ------------------------------------------------------------------------
ValueError(u) == [type |-> "ValueError", msg |-> <<"Invalid", "YouTube", "URL:", u>>]

\* ValidateUrl with the output directory prepared before the check
ValidateUrl_dirfirst ==
  /\ pc = "validate"
  /\ dirs' = dirs \cup {IF output_dir_arg = PyNone THEN CwdDir ELSE output_dir_arg.val}
  /\ trace' = Append(trace, [call |-> "ensure_directory",
                             dir |-> IF output_dir_arg = PyNone THEN CwdDir
                                     ELSE output_dir_arg.val])
  /\ IF ~ validate_url(url)
       THEN /\ exc' = [type |-> "ValueError", msg |-> <<"Invalid", "YouTube", "URL:", url>>]
            /\ pc' = "main_except"
       ELSE /\ pc' = "setup_dir"
            /\ UNCHANGED exc
  /\ UNCHANGED <<argv, url, output_dir_arg, output_dir, fs, ydl_opts,
                 title, duration, video_id, video_path, result, stdout,
                 exit_code, nprogress, progress_line>>

\* if not validate_url(url): raise ValueError
ValidateUrl ==
  /\ pc = "validate"
  /\ IF ~ validate_url(url)
       THEN /\ exc' = ValueError(url)
            /\ pc' = "main_except"
       ELSE /\ pc' = "setup_dir"
            /\ UNCHANGED exc
  /\ UNCHANGED <<argv, url, output_dir_arg, output_dir, dirs, fs, ydl_opts,
                 trace, title, duration, video_id, video_path, result, stdout,
                 exit_code, nprogress, progress_line>>

\* utils.ensure_directory: creates the directory when it is missing and
\* returns its path
ensure_directory(ds, d) == ds \cup {d}

\* output_dir defaults to the current directory; ensure_directory; banner
SetupOutputDir ==
  /\ pc = "setup_dir"
  /\ LET od == IF output_dir_arg = PyNone THEN CwdDir ELSE output_dir_arg.val
     IN /\ output_dir' = od
        /\ dirs' = ensure_directory(dirs, od)
        /\ trace' = Append(trace, [call |-> "ensure_directory", dir |-> od])
  /\ stdout' = Append(stdout, Say("start"))
  /\ pc' = "cookies"
  /\ UNCHANGED <<argv, url, output_dir_arg, fs, ydl_opts, title, duration,
                 video_id, video_path, result, exc, exit_code, nprogress,
                 progress_line>>

\* the options that do not depend on the cookie source
BaseOpts(od) ==
  [outtmpl |-> <<od, "/", "%(id)s", ".", "%(ext)s">>,
   writesubtitles |-> TRUE,
   writeautomaticsub |-> TRUE,
   subtitleslangs |-> <<"en">>,
   subtitlesformat |-> "vtt",
   writethumbnail |-> FALSE,
   quiet |-> FALSE,
   no_warnings |-> FALSE,
   progress_hooks |-> <<"_progress_hook">>,
   format |-> "bv*+ba/b",
   merge_output_format |-> "mp4"]

\* str(path): the directory, a separator and the dot-joined file name
RECURSIVE JoinDots(_)
JoinDots(name) ==
  IF Len(name) = 0 THEN <<>>
  ELSE IF Len(name) = 1 THEN <<name[1]>>
  ELSE <<name[1], ".">> \o JoinDots(Tail(name))

PathStr(p) == PyStr(<<p.parent, "/">> \o JoinDots(p.name))

\* CookiesFile with the current directory looked at first
CookiesFile_cwdfirst(f, od) ==
  IF PathJoin(CwdDir, CookiesName) \in DOMAIN f
    THEN PathJoin(CwdDir, CookiesName)
    ELSE PathJoin(od, CookiesName)

\* cookies_file: the output directory's cookies.txt, replaced by the current
\* directory's when the former does not exist
CookiesFile(f, od) ==
  IF ~ (PathJoin(od, CookiesName) \in DOMAIN f)
    THEN PathJoin(CwdDir, CookiesName)
    ELSE PathJoin(od, CookiesName)

\* ydl_opts with the cookie strategy added
BuildOpts(f, od) ==
  IF CookiesFile(f, od) \in DOMAIN f
    THEN ("cookiefile" :> PathStr(CookiesFile(f, od))) @@ BaseOpts(od)
    ELSE ("cookiesfrombrowser" :> <<"chrome">>) @@ BaseOpts(od)

ConfigureCookies ==
  /\ pc = "cookies"
  /\ ydl_opts' = BuildOpts(fs, output_dir)
  /\ trace' = trace \o
       << [call |-> "exists", path |-> PathJoin(output_dir, CookiesName)],
          [call |-> "exists", path |-> CookiesFile(fs, output_dir)] >>
  /\ stdout' = Append(stdout,
       IF "cookiefile" \in DOMAIN ydl_opts' THEN Say("use_cookies_txt")
                                            ELSE Say("use_browser_cookies"))
  /\ pc' = "probe"
  /\ UNCHANGED <<argv, url, output_dir_arg, output_dir, dirs, fs, title,
                 duration, video_id, video_path, result, exc, exit_code,
                 nprogress, progress_line>>

DownloadError(msg) == [type |-> "DownloadError", msg |-> msg]
TypeError == [type |-> "TypeError", msg |-> <<"unsupported", "operand", "type(s)">>]

\* utils.get_video_duration_display(duration): the set of its possible
\* outcomes; TRUE stands for "raises".  It formats a number of seconds; its
\* behaviour on None is not fixed by anything in download_video.py
get_video_duration_display(d) ==
  IF d.type = "int" THEN {FALSE} ELSE {FALSE, TRUE}

\* with YoutubeDL(ydl_opts): extract_info(url, download=False), the three
\* info.get and the three prints
ProbeInfo ==
  /\ pc = "probe"
  /\ \/ \E m \in Messages :
          /\ trace' = Append(trace, [call |-> "extract_info", download |-> FALSE,
                                     url |-> url, opts |-> ydl_opts,
                                     ret |-> PyNone])
          /\ exc' = DownloadError(m)
          /\ pc' = "except"
          /\ stdout' = Append(stdout, Say("probing"))
          /\ UNCHANGED <<title, duration, video_id>>
     \/ \E info \in ProbeInfos :
          /\ trace' = Append(trace, [call |-> "extract_info", download |-> FALSE,
                                     url |-> url, opts |-> ydl_opts,
                                     ret |-> info])
          /\ title' = DictGet(info, "title", "Unknown")
          /\ duration' = DictGet(info, "duration", PyInt(0))
          /\ video_id' = DictGet(info, "id", "unknown")
          /\ \E raises \in get_video_duration_display(duration') :
               IF raises
                 THEN /\ exc' = TypeError
                      /\ pc' = "except"
                      /\ stdout' = stdout \o <<Say("probing"), Say("title")>>
                 ELSE /\ pc' = "download"
                      /\ stdout' = stdout \o <<Say("probing"), Say("title"),
                                               Say("duration"), Say("video_id")>>
                      /\ UNCHANGED exc
  /\ UNCHANGED <<argv, url, output_dir_arg, output_dir, dirs, fs, ydl_opts,
                 video_path, result, exit_code, nprogress, progress_line>>

\* DownloadBegin with a configuration built anew, without the cookie source
DownloadBegin_freshopts ==
  /\ pc = "download"
  /\ trace' = Append(trace, [call |-> "extract_info", download |-> TRUE,
                             url |-> url, opts |-> BaseOpts(output_dir)])
  /\ stdout' = Append(stdout, Say("downloading"))
  /\ pc' = "downloading"
  /\ UNCHANGED <<argv, url, output_dir_arg, output_dir, dirs, fs, ydl_opts,
                 title, duration, video_id, video_path, result, exc,
                 exit_code, nprogress, progress_line>>

\* ydl.extract_info(url, download=True) is called
DownloadBegin ==
  /\ pc = "download"
  /\ trace' = Append(trace, [call |-> "extract_info", download |-> TRUE,
                             url |-> url, opts |-> ydl_opts])
  /\ stdout' = Append(stdout, Say("downloading"))
  /\ pc' = "downloading"
  /\ UNCHANGED <<argv, url, output_dir_arg, output_dir, dirs, fs, ydl_opts,
                 title, duration, video_id, video_path, result, exc,
                 exit_code, nprogress, progress_line>>

EnVtt == <<"en", "vtt">>
Vtt == <<"vtt">>

\* the files a download may leave in the output directory for a video that
\* the library names vp: the video itself and subtitles next to it
WrittenFiles(vp) ==
  { [p \in ps |-> IF p = vp THEN sz ELSE 3] :
      ps \in SUBSET {vp, PathJoin(vp.parent, PathStem(vp) \o EnVtt),
                     PathJoin(vp.parent, PathStem(vp) \o Vtt)},
      sz \in FileSizes }

\* ydl.extract_info(url, download=True) raises or returns;
\* video_path = Path(ydl.prepare_filename(info))
DownloadEnd ==
  /\ pc = "downloading"
  /\ \/ \E m \in Messages :
          /\ exc' = DownloadError(m)
          /\ pc' = "except"
          /\ UNCHANGED <<fs, video_path>>
     \/ \E n \in VideoNames :
          /\ video_path' = PathJoin(output_dir, n)
          /\ \E w \in WrittenFiles(video_path') : fs' = w @@ fs
          /\ pc' = "locate"
          /\ UNCHANGED exc
  /\ UNCHANGED <<argv, url, output_dir_arg, output_dir, dirs, ydl_opts, trace,
                 title, duration, video_id, result, stdout, exit_code,
                 nprogress, progress_line>>

\* subtitle_exts in the opposite order
SubtitleExts_swapped == <<Vtt, EnVtt>>

\* subtitle_exts
SubtitleExts == <<EnVtt, Vtt>>

\* potential_sub of one loop iteration: with_suffix(ext), replaced by
\* <stem>.en.vtt when that does not exist
PotentialSub(f, vp, ext) ==
  IF ~ (WithSuffix(vp, ext) \in DOMAIN f)
    THEN PathJoin(vp.parent, PathStem(vp) \o EnVtt)
    ELSE WithSuffix(vp, ext)

\* the loop over subtitle_exts from position i on: the first potential_sub
\* that exists, None when the loop ends without a break
RECURSIVE FindSubtitleFrom(_, _, _)
FindSubtitleFrom(f, vp, i) ==
  IF i > Len(SubtitleExts) THEN PyNone
  ELSE IF PotentialSub(f, vp, SubtitleExts[i]) \in DOMAIN f
    THEN PotentialSub(f, vp, SubtitleExts[i])
    ELSE FindSubtitleFrom(f, vp, i + 1)

FindSubtitle(f, vp) == FindSubtitleFrom(f, vp, 1)

\* FileSize that never reads the size
FileSize_zero(f, vp) == 0

\* file_size = video_path.stat().st_size if video_path.exists() else 0
FileSize(f, vp) == IF vp \in DOMAIN f THEN f[vp] ELSE 0

NotFoundError ==
  [type |-> "Exception",
   msg |-> <<"Video", "file", "not", "found", "after", "download">>]

\* MakeResult that reports the expected subtitle name when none was found
MakeResult_guess(vp, sub, t, dur, size, vid) ==
  [video_path |-> PathStr(vp),
   subtitle_path |-> IF sub # PyNone THEN PathStr(sub)
                     ELSE PathStr(WithSuffix(vp, EnVtt)),
   title |-> t,
   duration |-> dur,
   file_size |-> size,
   video_id |-> vid]

\* the dict download_video returns
MakeResult(vp, sub, t, dur, size, vid) ==
  [video_path |-> PathStr(vp),
   subtitle_path |-> IF sub # PyNone THEN PathStr(sub) ELSE PyNone,
   title |-> t,
   duration |-> dur,
   file_size |-> size,
   video_id |-> vid]

\* subtitle lookup, file size, existence check, prints and return
LocateFiles ==
  /\ pc = "locate"
  /\ LET subtitle_path == FindSubtitle(fs, video_path)
         file_size == FileSize(fs, video_path)
     IN IF ~ exists(video_path)
          THEN /\ exc' = NotFoundError
               /\ pc' = "except"
               /\ UNCHANGED <<result, stdout>>
          ELSE /\ stdout' = stdout \o
                    << Say("video_done"),
                       IF subtitle_path # PyNone /\ exists(subtitle_path)
                         THEN Say("subtitle_done")
                         ELSE Say("subtitle_missing") >>
               /\ result' = MakeResult(video_path, subtitle_path, title,
                                       duration, file_size, video_id)
               /\ pc' = "main_ok"
               /\ UNCHANGED exc
  /\ UNCHANGED <<argv, url, output_dir_arg, output_dir, dirs, fs, ydl_opts,
                 trace, title, duration, video_id, video_path, exit_code,
                 nprogress, progress_line>>

\* except Exception as e: print, guidance for the known messages, raise
ExceptHandler ==
  /\ pc = "except"
  /\ stdout' = stdout \o
       (IF NeedsGuidance(exc.msg)
          THEN << [tag |-> "failed", msg |-> exc.msg],
                  [tag |-> "guidance",
                   text |-> <<"save", "to", output_dir, "/", "cookies.txt">>] >>
          ELSE << [tag |-> "failed", msg |-> exc.msg] >>)
  /\ pc' = "main_except"
  /\ UNCHANGED <<argv, url, output_dir_arg, output_dir, dirs, fs, ydl_opts,
                 trace, title, duration, video_id, video_path, result, exc,
                 exit_code, nprogress, progress_line>>

\* ------------------------------------------------------------------------
\* Python float arithmetic (IEEE 754 binary64, round to nearest, ties to
\* even) on the non-negative values the progress hook computes.  A natural
\* number is a sequence of bits, most significant first; a float is zero
\* (empty mantissa) or a 53 bit mantissa m and an exponent e, of value
\* m * 2^e.
\* ------------------------------------------------------------------------
MantBits == 53
RECURSIVE IntBits(_)
IntBits(n) == IF n = 0 THEN <<>> ELSE Append(IntBits(n \div 2), n % 2)

\* zero bits appended to a dividend that is divided by k, so that the
\* quotient has a guard bit and more after its first MantBits bits
PadBits(k) == MantBits + 2 + Len(IntBits(k))

RECURSIVE BitsInt(_)
BitsInt(b) ==
  IF Len(b) = 0 THEN 0 ELSE 2 * BitsInt(SubSeq(b, 1, Len(b) - 1)) + b[Len(b)]

\* b without its leading zero bits
StripZeros(b) ==
  IF \A i \in 1..Len(b) : b[i] = 0 THEN <<>>
  ELSE SubSeq(b, CHOOSE i \in 1..Len(b) :
                   b[i] = 1 /\ \A j \in 1..(i - 1) : b[j] = 0, Len(b))

Zeros(n) == [i \in 1..n |-> 0]

\* b * k for a small k: schoolbook multiplication of the bits lo..hi, last
\* bit first, carry the carry into bit hi: the product bits and the carry
\* out of bit lo
RECURSIVE MulRange(_, _, _, _, _)
MulRange(b, k, lo, hi, carry) ==
  IF lo > hi THEN [q |-> <<>>, c |-> carry]
  ELSE IF lo = hi
    THEN [q |-> <<(b[lo] * k + carry) % 2>>, c |-> (b[lo] * k + carry) \div 2]
  ELSE LET mid == (lo + hi) \div 2
           right == MulRange(b, k, mid + 1, hi, carry)
           Left[c \in 0..k] == MulRange(b, k, lo, mid, c)
       IN [q |-> Left[right.c].q \o right.q, c |-> Left[right.c].c]

MulBits(b, k) ==
  LET p == MulRange(b, k, 1, Len(b), 0) IN IntBits(p.c) \o p.q

\* long division of the bits lo..hi of b by a small k, first bit first, r
\* the remainder carried into bit lo: the quotient bits and the remainder
RECURSIVE DivRange(_, _, _, _, _)
DivRange(b, k, lo, hi, r) ==
  IF lo > hi THEN [q |-> <<>>, r |-> r]
  ELSE IF lo = hi
    THEN [q |-> <<(2 * r + b[lo]) \div k>>, r |-> (2 * r + b[lo]) % k]
  ELSE LET mid == (lo + hi) \div 2
           left == DivRange(b, k, lo, mid, r)
           Right[c \in 0..k] == DivRange(b, k, mid + 1, hi, c)
       IN [q |-> left.q \o Right[left.r].q, r |-> Right[left.r].r]

\* b + 1
IncBits(b) ==
  IF \A i \in 1..Len(b) : b[i] = 1 THEN <<1>> \o Zeros(Len(b))
  ELSE LET z == CHOOSE i \in 1..Len(b) :
                  b[i] = 0 /\ \A j \in (i + 1)..Len(b) : b[j] = 1
       IN [i \in 1..Len(b) |-> IF i < z THEN b[i] ELSE IF i = z THEN 1 ELSE 0]

FZero == [m |-> <<>>, e |-> 0]

\* the float nearest to (b / k) * 2^e
RoundRatio(b, k, e) ==
  IF StripZeros(b) = <<>> THEN FZero
  ELSE
    LET d == DivRange(b \o Zeros(PadBits(k)), k, 1, Len(b) + PadBits(k), 0)
        q == StripZeros(d.q)
        m == SubSeq(q, 1, MantBits)
        guard == q[MantBits + 1]
        sticky == d.r # 0 \/ \E i \in (MantBits + 2)..Len(q) : q[i] = 1
        ex == e - PadBits(k) + (Len(q) - MantBits)
        up == guard = 1 /\ (sticky \/ m[MantBits] = 1)
        m1 == IF up THEN IncBits(m) ELSE m
    IN IF Len(m1) > MantBits
         THEN [m |-> SubSeq(m1, 1, MantBits), e |-> ex + 1]
         ELSE [m |-> m1, e |-> ex]

\* int / int (true division)
FloatDivInts(a, b) == RoundRatio(IntBits(a), b, 0)
\* float * int and float / int
FloatMul(x, k) == RoundRatio(MulBits(x.m, k), 1, x.e)
FloatDiv(x, k) == RoundRatio(x.m, k, x.e)

\* int(x) for x >= 0: the integer part
FloatInt(x) ==
  IF x.m = <<>> \/ MantBits + x.e <= 0 THEN 0
  ELSE BitsInt(SubSeq(x.m, 1, MantBits + x.e))

\* ------------------------------------------------------------------------
\* _progress_hook
\* ------------------------------------------------------------------------
\* str * int: no copies for a count that is not positive
Repeat(ch, n) == [i \in 1..n |-> ch]

bar_length == 30

\* percent = d["downloaded_bytes"] / d["total_bytes"] * 100
Percent(downloaded, total) == FloatMul(FloatDivInts(downloaded, total), 100)

\* filled = int(bar_length * percent / 100)
Filled(downloaded, total) ==
  FloatInt(FloatDiv(FloatMul(Percent(downloaded, total), bar_length), 100))

\* bar = "█" * filled + "░" * (bar_length - filled)
Bar(downloaded, total) ==
  Repeat("#", Filled(downloaded, total))
    \o Repeat("-", bar_length - Filled(downloaded, total))

\* speed_str: the formatted rate, "N/A" without a speed
SpeedStr(d) ==
  IF Truthy(DictGet(d, "speed", PyInt(0)))
    THEN [rate |-> d["speed"].val] ELSE [rate |-> "N/A"]

\* the line the hook prints for the event d (None when it prints nothing)
HookLine(d) ==
  IF d["status"] = "downloading"
    THEN IF "downloaded_bytes" \in DOMAIN d /\ "total_bytes" \in DOMAIN d
              /\ Truthy(d["total_bytes"])
           THEN [kind |-> "bar",
                 bar |-> Bar(d["downloaded_bytes"].val, d["total_bytes"].val),
                 percent |-> Percent(d["downloaded_bytes"].val, d["total_bytes"].val),
                 downloaded |-> d["downloaded_bytes"].val,
                 total |-> d["total_bytes"].val,
                 speed |-> SpeedStr(d)]
         ELSE IF "downloaded_bytes" \in DOMAIN d
           THEN [kind |-> "plain",
                 downloaded |-> d["downloaded_bytes"].val,
                 speed |-> SpeedStr(d)]
         ELSE PyNone
  ELSE IF d["status"] = "finished" THEN [kind |-> "newline"]
  ELSE PyNone

\* byte counts and totals carried by the progress events considered
DownloadedCounts == {0, 1, 50, 150}
TotalCounts == {3, 100}

Optional(key, vals) == {[k \in {} |-> 0]} \cup {key :> v : v \in vals}

ProgressEvents ==
  { ("status" :> st) @@ a @@ b @@ c :
      st \in {"downloading"},
      a \in Optional("downloaded_bytes", {PyInt(n) : n \in DownloadedCounts}),
      b \in Optional("total_bytes",
                     {PyNone, PyInt(0)} \cup {PyInt(n) : n \in TotalCounts}),
      c \in Optional("speed", {PyInt(9)}) }
    \cup { [status |-> "finished"], [status |-> "error"] }

\* HookLine tabulated over the events considered
HookLines == [d \in ProgressEvents |-> HookLine(d)]

\* the library calls the hook during the download
ProgressHook ==
  /\ pc = "downloading"
  /\ nprogress < MaxProgress
  /\ nprogress' = nprogress + 1
  /\ \E d \in ProgressEvents :
       progress_line' = IF HookLines[d] = PyNone THEN progress_line ELSE HookLines[d]
  /\ UNCHANGED <<argv, pc, url, output_dir_arg, output_dir, dirs, fs, ydl_opts,
                 trace, title, duration, video_id, video_path, result, exc,
                 stdout, exit_code>>

\* ------------------------------------------------------------------------
\* main, after download_video
\* ------------------------------------------------------------------------
\* print(json.dumps(result)); the script ends
MainPrintResult ==
  /\ pc = "main_ok"
  /\ stdout' = stdout \o << Say("json_header"), [tag |-> "json", obj |-> result] >>
  /\ exit_code' = PyInt(0)
  /\ pc' = "exit"
  /\ UNCHANGED <<argv, url, output_dir_arg, output_dir, dirs, fs, ydl_opts,
                 trace, title, duration, video_id, video_path, result, exc,
                 nprogress, progress_line>>

\* MainExcept without sys.exit(1)
MainExcept_noexit ==
  /\ pc = "main_except"
  /\ stdout' = Append(stdout, [tag |-> "error", msg |-> exc.msg])
  /\ exit_code' = PyInt(0)
  /\ pc' = "exit"
  /\ UNCHANGED <<argv, url, output_dir_arg, output_dir, dirs, fs, ydl_opts,
                 trace, title, duration, video_id, video_path, result, exc,
                 nprogress, progress_line>>

\* except Exception as e: print the error, sys.exit(1)
MainExcept ==
  /\ pc = "main_except"
  /\ stdout' = Append(stdout, [tag |-> "error", msg |-> exc.msg])
  /\ exit_code' = PyInt(1)
  /\ pc' = "exit"
  /\ UNCHANGED <<argv, url, output_dir_arg, output_dir, dirs, fs, ydl_opts,
                 trace, title, duration, video_id, video_path, result, exc,
                 nprogress, progress_line>>

Next ==
  \/ MainStart
  \/ ValidateUrl
  \/ SetupOutputDir
  \/ ConfigureCookies
  \/ ProbeInfo
  \/ DownloadBegin
  \/ ProgressHook
  \/ DownloadEnd
  \/ LocateFiles
  \/ ExceptHandler
  \/ MainPrintResult
  \/ MainExcept

Spec == Init /\ [][Next]_vars

\* ------------------------------------------------------------------------
\* Properties
\* ------------------------------------------------------------------------
\* Path(str): the file a printed path names
ParsePath(str) ==
  [parent |-> str.val[1],
   name |-> [i \in 1..((Len(str.val) - 1) \div 2) |-> str.val[2 * i + 1]]]

\* the calls of extract_info made so far
LibCalls == SelectSeq(trace, LAMBDA c : c.call = "extract_info")
Probes == SelectSeq(LibCalls, LAMBDA c : ~ c.download)
Downloads == SelectSeq(LibCalls, LAMBDA c : c.download)

Printed(tag) == \E i \in 1..Len(stdout) : stdout[i].tag = tag

\* download_video has been entered with the url and has left validation
PastValidation == pc \notin {"main", "validate"} /\ Len(argv) >= 2

\* C1: a url that fails validate_url makes download_video raise ValueError
\* before anything else happens: ensure_directory is not called and no
\* directory is created, no cookies.txt is looked up, the library is called
\* neither for the probe nor for the download, and nothing is returned.
C1_InvalidUrlFailsFirst ==
  (PastValidation /\ ~ validate_url(url)) =>
    /\ exc = ValueError(url)
    /\ trace = <<>>
    /\ output_dir = ""
    /\ ydl_opts = [k \in {} |-> 0]
    /\ result = PyNone

C1_Witness ==
  /\ pc = "main_except"
  /\ ~ validate_url(url)
  /\ exc.type = "ValueError"
  /\ Len(argv) > 2
  /\ argv[3] = OtherDir
  /\ OtherDir \notin dirs

\* the cookie source a configuration names, given the files on disk
CookiePolicy(opts, od) ==
  IF exists(PathJoin(od, CookiesName))
    THEN /\ "cookiefile" \in DOMAIN opts
         /\ opts["cookiefile"] = PathStr(PathJoin(od, CookiesName))
         /\ "cookiesfrombrowser" \notin DOMAIN opts
  ELSE IF exists(PathJoin(CwdDir, CookiesName))
    THEN /\ "cookiefile" \in DOMAIN opts
         /\ opts["cookiefile"] = PathStr(PathJoin(CwdDir, CookiesName))
         /\ "cookiesfrombrowser" \notin DOMAIN opts
  ELSE /\ "cookiesfrombrowser" \in DOMAIN opts
       /\ opts["cookiesfrombrowser"] = <<"chrome">>
       /\ "cookiefile" \notin DOMAIN opts

AfterLocate == video_path # PyNone /\ pc # "locate"

\* C3: a returned result names a video file that exists and whose size is
\* the reported file_size; when the expected video file is absent after the
\* retrieval call returned, nothing is returned and the call fails with the
\* "Video file not found after download" error.
C3_ResultFileExists ==
  /\ result # PyNone =>
       /\ exists(ParsePath(result.video_path))
       /\ result.file_size = fs[ParsePath(result.video_path)]
  /\ (AfterLocate /\ ~ exists(video_path)) =>
       /\ result = PyNone
       /\ exc = NotFoundError

C3_Witness ==
  /\ result # PyNone
  /\ result.file_size = 7
  /\ ParsePath(result.video_path) = video_path

EnSub(vp) == PathJoin(vp.parent, PathStem(vp) \o <<"en", "vtt">>)
PlainSub(vp) == PathJoin(vp.parent, PathStem(vp) \o <<"vtt">>)

\* C4: with the video file on disk and no subtitle file next to it, the call
\* returns a result whose subtitle_path is None and raises nothing.
C4_MissingSubtitleStillSucceeds ==
  (AfterLocate /\ exists(video_path)
     /\ ~ exists(EnSub(video_path)) /\ ~ exists(PlainSub(video_path))) =>
    /\ result # PyNone
    /\ result.subtitle_path = PyNone
    /\ exc = PyNone
    /\ Printed("subtitle_missing")
    /\ exit_code \in {PyNone, PyInt(0)}

C4_Witness ==
  /\ pc = "exit"
  /\ result # PyNone
  /\ result.subtitle_path = PyNone
  /\ exit_code = PyInt(0)
  /\ ~ exists(EnSub(video_path))
  /\ ~ exists(PlainSub(video_path))

\* C5: at process exit: without a URL argument the usage message was
\* printed, download_video was not called and the code is 1; with a URL, a
\* failure of download_video gives an error message, no JSON and code 1, and
\* a returned result gives that result printed as JSON and code 0.
C5_ExitCodes ==
  pc = "exit" =>
    IF Len(argv) < 2
      THEN /\ stdout = <<Say("usage")>>
           /\ exit_code = PyInt(1)
           /\ trace = <<>> /\ result = PyNone /\ exc = PyNone
    ELSE IF result = PyNone
      THEN /\ exc # PyNone
           /\ stdout[Len(stdout)] = [tag |-> "error", msg |-> exc.msg]
           /\ ~ Printed("json")
           /\ exit_code = PyInt(1)
    ELSE /\ exc = PyNone
         /\ stdout[Len(stdout)] = [tag |-> "json", obj |-> result]
         /\ ~ Printed("error")
         /\ exit_code = PyInt(0)

C5_Witness ==
  /\ pc = "exit"
  /\ exit_code = PyInt(1)
  /\ Len(argv) >= 2
  /\ exc = NotFoundError

KnownMessage(msg) ==
  \/ Contains(msg, <<"Sign", "in", "to", "confirm">>)
  \/ Contains(msg, <<"Requested", "format", "is", "not", "available">>)
  \/ Contains(msg, <<"Only", "images", "are", "available">>)

\* C6: the handler of a library error with a known message prints the
\* guidance, which mentions cookies.txt, and re-raises the same error; for
\* any other message it re-raises without the guidance; it never returns a
\* result.
C6_GuidanceThenPropagate ==
  [][(pc = "except" /\ exc.type = "DownloadError") =>
       /\ exc' = exc
       /\ pc' = "main_except"
       /\ result' = PyNone
       /\ IF KnownMessage(exc.msg)
            THEN /\ Len(stdout') = Len(stdout) + 2
                 /\ stdout'[Len(stdout')].tag = "guidance"
                 /\ Contains(stdout'[Len(stdout')].text, <<"cookies.txt">>)
            ELSE /\ Len(stdout') = Len(stdout) + 1
                 /\ stdout'[Len(stdout')].tag = "failed"]_vars

C6_Witness ==
  /\ pc = "main_except"
  /\ exc.type = "DownloadError"
  /\ Contains(exc.msg, <<"Sign", "in", "to", "confirm">>)
  /\ Printed("guidance")
  /\ result = PyNone

Count(seq, ch) == Cardinality({i \in 1..Len(seq) : seq[i] = ch})

\* C7: a bar line has 30 segments, floor(30 * downloaded / total) of them
\* filled and the rest unfilled, the filled ones first.
C7_BarWidthAndFill ==
  (progress_line # PyNone /\ progress_line.kind = "bar") =>
    LET n == (30 * progress_line.downloaded) \div progress_line.total
    IN /\ Len(progress_line.bar) = 30
       /\ Count(progress_line.bar, "#") = n
       /\ \A i \in 1..Len(progress_line.bar) :
            progress_line.bar[i] = IF i <= n THEN "#" ELSE "-"

\* C8: the duration of a result is an int, and it is 0 when the probe's
\* metadata has no duration key or has it with the value None.
C8_DurationIntOrZero ==
  result # PyNone =>
    /\ result.duration.type = "int"
    /\ ("duration" \notin DOMAIN Probes[1].ret
          \/ Probes[1].ret["duration"] = PyNone) => result.duration = PyInt(0)

\* C9: the library is called at most once for the probe and at most once
\* for the download, the download only after the probe returned and with
\* the same configuration; after a probe that raised there is no download
\* and no result.
C9_ProbeThenDownload ==
  /\ Len(Probes) <= 1
  /\ Len(Downloads) <= 1
  /\ Len(Downloads) = 1 =>
       /\ Len(Probes) = 1
       /\ LibCalls = Probes \o Downloads
       /\ Probes[1].ret # PyNone
       /\ Downloads[1].opts = Probes[1].opts
       /\ Downloads[1].url = Probes[1].url
  /\ (Len(Probes) = 1 /\ Probes[1].ret = PyNone) =>
       /\ Len(Downloads) = 0
       /\ result = PyNone
  /\ result # PyNone => Len(Downloads) = 1

C9_Witness ==
  /\ Len(Downloads) = 1
  /\ Len(Probes) = 1
  /\ result # PyNone

\* C10: the subtitle_path of a result is <base>.en.vtt if that file exists,
\* else <base>.vtt if that file exists, else None.
C10_SubtitlePreference ==
  result # PyNone =>
    result.subtitle_path =
      IF exists(EnSub(video_path)) THEN PathStr(EnSub(video_path))
      ELSE IF exists(PlainSub(video_path)) THEN PathStr(PlainSub(video_path))
      ELSE PyNone

C10_Witness ==
  /\ result # PyNone
  /\ exists(EnSub(video_path))
  /\ exists(PlainSub(video_path))
  /\ Len(video_path.name) = 3
  /\ result.subtitle_path = PathStr(EnSub(video_path))

====
